---- MODULE Spec2Model ----
(***************************************************************************)
(* A model of mgaps (src/src/tigr/mgaps.cc): for one query, the matches    *)
(* read by main are sorted, filtered (Filter_Matches), clustered with a    *)
(* union-find (Process_Matches) and chained cluster by cluster             *)
(* (Process_Cluster).                                                      *)
(*                                                                         *)
(* Arrays are TLA+ sequences (first element at 1).  Loop indices keep the  *)
(* values they have in the C code: Filter_Matches and Process_Cluster      *)
(* index their array from 0, so element i of the code is M[i + 1];         *)
(* Process_Matches indexes A from 1, so A[i] is A[i].                      *)
(* Only the live part A[1 .. N] of an array is kept: what a compaction     *)
(* leaves behind N is never read again by the code.                        *)
(***************************************************************************)
EXTENDS Integers, Sequences, FiniteSets, TLC

VARIABLES
  pc,            \* position in Process_Matches / Process_Cluster
  cfg,           \* the static option variables (lines 81-86)
  label0,        \* the label main passed to Process_Matches
  label,         \* Process_Matches' parameter label (reassigned at line 469)
  A,             \* Process_Matches' A[1 .. N]
  UF,            \* UnionFind::m_UF[1 .. s]
  i,             \* Process_Matches' loop variable i of line 461
  cluster_size,  \* Process_Matches' cluster_size
  print_ct,      \* Process_Matches' print_ct
  W,             \* Process_Cluster's A[0 .. N-1]
  clabel,        \* Process_Cluster's parameter label (reassigned at line 390)
  ct,            \* Process_Cluster's print_ct
  out,           \* the lines written to std::cout
  filtered,      \* history: the array as Filter_Matches first left it
  hist           \* history: one record per iteration of Process_Cluster's do-while

vars == <<pc, cfg, label0, label, A, UF, i, cluster_size, print_ct, W, clabel,
          ct, out, filtered, hist>>

----------------------------------------------------------------------------
(* Bounds of the model *)

\* Every match of a generated query ends at or before MaxEnd on both axes
MaxEnd == 3
\* A generated query holds at most MaxN matches
MaxN == 3

(* Program constants *)

DEFAULT_FIXED_SEPARATION == 5
DEFAULT_MAX_SEPARATION == 1000
DEFAULT_MIN_OUTPUT_SCORE == 200
\* DEFAULT_SEPARATION_FACTOR = 0.05, kept as the fraction 1/20
DEFAULT_SEPARATION_FACTOR == [num |-> 1, den |-> 20]
\* LONG_MIN and LONG_MAX only start the running maximum and minimum of lines
\* 345-354; TLC's integers are 32 bits wide, so the model uses that width's ends.
LONG_MIN == -2147483647
LONG_MAX == 2147483647

Max(a, b) == IF a < b THEN b ELSE a
Abs(a) == IF a < 0 THEN -a ELSE a
\* C's conversion (int)(x) of a double truncates towards zero
TruncDiv(a, b) == IF a >= 0 THEN a \div b ELSE -((-a) \div b)

----------------------------------------------------------------------------
(* struct Match_t *)

\* The constructor leaves Simple_Score, Simple_From, Simple_Adj and cluster_id
\* unset; the code writes each of them before it reads it (lines 314-316, 457),
\* so the value they start with is never observed.
Match_t(S1, S2, L) ==
  [Start1 |-> S1, Start2 |-> S2, Len |-> L,
   Simple_Score |-> 0, Simple_From |-> 0, Simple_Adj |-> 0,
   cluster_id |-> 0, Good |-> FALSE, Tentative |-> FALSE]

Diag(m) == m.Start2 - m.Start1

Triple(m) == <<m.Start1, m.Start2, m.Len>>
Triples(M) == [k \in 1..Len(M) |-> Triple(M[k])]

\* By_Start2 (x, y) <= 0
By_Start2(x, y) ==
  IF x.Start2 < y.Start2 THEN -1
  ELSE IF x.Start2 > y.Start2 THEN 1
  ELSE IF x.Start1 < y.Start1 THEN -1
  ELSE IF x.Start1 > y.Start1 THEN 1
  ELSE 0

By_Cluster(x, y) ==
  IF x.cluster_id < y.cluster_id THEN -1
  ELSE IF x.cluster_id > y.cluster_id THEN 1
  ELSE IF x.Start2 < y.Start2 THEN -1
  ELSE IF x.Start2 > y.Start2 THEN 1
  ELSE IF x.Start1 < y.Start1 THEN -1
  ELSE IF x.Start1 > y.Start1 THEN 1
  ELSE 0

\* The comparator qsort is handed, by name
Compare(compar, x, y) ==
  IF compar = "By_Cluster" THEN By_Cluster(x, y) ELSE By_Start2(x, y)

\* qsort: any arrangement of M that the comparator accepts as sorted (qsort is
\* not stable: elements that compare equal may come out in either order).
qsort(M, compar) ==
  {[k \in 1..Len(M) |-> M[p[k]]] : p \in
     {q \in Permutations(1..Len(M)) :
        \A k \in 1..(Len(M) - 1) : Compare(compar, M[q[k]], M[q[k + 1]]) <= 0}}

----------------------------------------------------------------------------
(* Filter_Matches *)

RECURSIVE FilterScan(_, _, _, _)
RECURSIVE FilterTie(_, _, _, _, _)

\* The body shared by the branches of lines 214-244 and 245-275, with olap as
\* each branch computes it.
FilterTie(M, ii, j, i_end, olap) ==
  LET a == M[ii + 1]
      b == M[j + 1]
  IN  IF a.Len < b.Len
        THEN IF olap >= a.Len \div 2
               THEN [M EXCEPT ![ii + 1].Good = FALSE]                \* break
               ELSE FilterScan(M, ii, j + 1, i_end)
      ELSE IF b.Len < a.Len
        THEN IF olap >= b.Len \div 2
               THEN FilterScan([M EXCEPT ![j + 1].Good = FALSE], ii, j + 1, i_end)
               ELSE FilterScan(M, ii, j + 1, i_end)
      ELSE IF olap >= a.Len \div 2
        THEN LET M1 == [M EXCEPT ![j + 1].Tentative = TRUE]
             IN  IF a.Tentative
                   THEN [M1 EXCEPT ![ii + 1].Good = FALSE]            \* break
                   ELSE FilterScan(M1, ii, j + 1, i_end)
        ELSE FilterScan(M, ii, j + 1, i_end)

\* A merge that leaves i_end as it was
MergedEnd_Stale(a, j_extent, i_end) == i_end

\* i_end after a same-diagonal candidate of extent j_extent (lines 207-211)
MergedEnd(a, j_extent, i_end) ==
  IF j_extent > a.Len THEN a.Start2 + j_extent ELSE i_end

\* The inner loop of lines 191-276 from candidate j on
FilterScan(M, ii, j, i_end) ==
  IF ~(j < Len(M) /\ M[j + 1].Start2 <= i_end) THEN M
  ELSE LET a == M[ii + 1]
           b == M[j + 1]
       IN  IF ~b.Good THEN FilterScan(M, ii, j + 1, i_end)          \* continue
           ELSE IF Diag(a) = Diag(b)
             THEN LET j_extent == b.Len + b.Start2 - a.Start2
                      M1 == IF j_extent > a.Len
                              THEN [M EXCEPT ![ii + 1].Len = j_extent]
                              ELSE M
                  IN  FilterScan([M1 EXCEPT ![j + 1].Good = FALSE], ii, j + 1,
                                 MergedEnd(a, j_extent, i_end))
           ELSE IF a.Start1 = b.Start1
             THEN FilterTie(M, ii, j, i_end, a.Start2 + a.Len - b.Start2)
           ELSE IF a.Start2 = b.Start2
             THEN FilterTie(M, ii, j, i_end, a.Start1 + a.Len - b.Start1)
           ELSE FilterScan(M, ii, j + 1, i_end)

\* The outer loop of lines 181-277 from ii on
RECURSIVE FilterLoop(_, _)
FilterLoop(M, ii) ==
  IF ~(ii < Len(M) - 1) THEN M
  ELSE IF ~M[ii + 1].Good THEN FilterLoop(M, ii + 1)
  ELSE FilterLoop(FilterScan(M, ii, ii + 1, M[ii + 1].Start2 + M[ii + 1].Len),
                  ii + 1)

\* Lines 279-289: pack the Good matches to the front, then clear Good
FilterPack(M) ==
  LET kept == SelectSeq(M, LAMBDA m : m.Good)
  IN  [k \in 1..Len(kept) |-> [kept[k] EXCEPT !.Good = FALSE]]

Filter_Matches(M) ==
  FilterPack(FilterLoop([k \in 1..Len(M) |-> [M[k] EXCEPT !.Good = TRUE]], 0))

----------------------------------------------------------------------------
(* struct UnionFind *)

\* UnionFind::reset
reset(s) == [k \in 1..s |-> -1]

RECURSIVE FindRoot(_, _)
\* The loop of lines 43-44
FindRoot(uf, k) == IF uf[k] > 0 THEN FindRoot(uf, uf[k]) ELSE k

RECURSIVE Compress(_, _, _)
\* The loop of lines 45-48
Compress(uf, j, r) ==
  IF uf[j] # r THEN Compress([uf EXCEPT ![j] = r], uf[j], r) ELSE uf

\* UnionFind::find: the set's id, and m_UF with the path compressed
find(uf, a) ==
  IF uf[a] < 0 THEN [uf |-> uf, id |-> a]
  ELSE LET r == FindRoot(uf, a) IN [uf |-> Compress(uf, a, r), id |-> r]

\* UnionFind::union_sets (the assert of line 55 holds: a and b come from find)
union_sets(uf, a, b) ==
  IF a = b THEN uf
  ELSE IF uf[a] < uf[b]
    THEN [uf EXCEPT ![a] = uf[a] + uf[b], ![b] = a]
    ELSE [uf EXCEPT ![b] = uf[b] + uf[a], ![a] = b]

----------------------------------------------------------------------------
(* Process_Matches: the union-find pass, lines 435-457 *)

\* A tolerance that does not grow with the separation
Tolerance_Fixed(c, sep) == c.Fixed_Separation

\* std::max(Fixed_Separation, (int)(Separation_Factor * sep)), line 449
Tolerance(c, sep) ==
  Max(c.Fixed_Separation,
      TruncDiv(c.Separation_Factor.num * sep, c.Separation_Factor.den))

\* The test of line 449 for A[ii], A[j]
Joins(c, a, b, sep) == Abs(Diag(b) - Diag(a)) <= Tolerance(c, sep)

\* find(i) and find(j) are the arguments of one call: C++ leaves their order
\* open, and either order compresses the same two paths to the same roots.
UnionPair(uf, ii, j) ==
  LET f1 == find(uf, ii)
      f2 == find(f1.uf, j)
  IN  union_sets(f2.uf, f1.id, f2.id)

RECURSIVE UnionScan(_, _, _, _, _)
\* The inner loop of lines 440-451 from j on
UnionScan(c, M, uf, ii, j) ==
  IF ~(j <= Len(M)) THEN uf
  ELSE LET sep == M[j].Start2 - (M[ii].Start2 + M[ii].Len)
       IN  IF sep > c.Max_Separation THEN uf                         \* break
           ELSE UnionScan(c, M,
                          IF Joins(c, M[ii], M[j], sep)
                            THEN UnionPair(uf, ii, j) ELSE uf,
                          ii, j + 1)

RECURSIVE UnionLoop(_, _, _, _)
\* The outer loop of lines 435-452 from ii on
UnionLoop(c, M, uf, ii) ==
  IF ~(ii < Len(M)) THEN uf
  ELSE UnionLoop(c, M, UnionScan(c, M, uf, ii, ii + 1), ii + 1)

RECURSIVE SetClusterIds(_, _, _)
\* Lines 456-457: find compresses as it goes
SetClusterIds(M, uf, ii) ==
  IF ~(ii <= Len(M)) THEN [A |-> M, uf |-> uf]
  ELSE LET f == find(uf, ii)
       IN  SetClusterIds([M EXCEPT ![ii].cluster_id = f.id], f.uf, ii + 1)

RECURSIVE ClusterEnd(_, _, _)
\* The loop of lines 464-465: the first j past the cluster that starts at ii
ClusterEnd(M, ii, j) ==
  IF j <= Len(M) /\ M[ii].cluster_id = M[j].cluster_id
    THEN ClusterEnd(M, ii, j + 1) ELSE j

----------------------------------------------------------------------------
(* Process_Cluster: one iteration of the do-while of lines 310-403 *)

\* An overlap measured on the query axis alone
Overlap_QueryOnly(b, a) == Max(0, b.Start2 + b.Len - a.Start2)

\* Olap of lines 322-325, of the earlier match b against a
Overlap(b, a) ==
  Max(Max(0, b.Start1 + b.Len - a.Start1), b.Start2 + b.Len - a.Start2)

\* A penalty without the diagonal term
Penalty_NoDrift(b, a) == Overlap(b, a)

\* A penalty without the overlap term
Penalty_NoOverlap(b, a) == Abs(Diag(a) - Diag(b))

\* Pen of lines 328-329
Penalty(b, a) == Overlap(b, a) + Abs(Diag(a) - Diag(b))

RECURSIVE ScoreFrom(_, _, _)
\* The inner loop of lines 317-337 for match ii, from j on
ScoreFrom(M, ii, j) ==
  IF ~(j < ii) THEN M
  ELSE LET a == M[ii + 1]
           b == M[j + 1]
       IN  IF b.Simple_Score + a.Len - Penalty(b, a) > a.Simple_Score
             THEN ScoreFrom([M EXCEPT ![ii + 1].Simple_From = j,
                                      ![ii + 1].Simple_Score =
                                          b.Simple_Score + a.Len - Penalty(b, a),
                                      ![ii + 1].Simple_Adj = Overlap(b, a)],
                            ii, j + 1)
             ELSE ScoreFrom(M, ii, j + 1)

RECURSIVE ScoreAll(_, _)
\* The loop of lines 312-338 from ii on
ScoreAll(M, ii) ==
  IF ~(ii < Len(M)) THEN M
  ELSE ScoreAll(ScoreFrom([M EXCEPT ![ii + 1].Simple_Score = M[ii + 1].Len,
                                    ![ii + 1].Simple_Adj = 0,
                                    ![ii + 1].Simple_From = -1],
                          ii, 0),
                ii + 1)

RECURSIVE BestFrom(_, _, _)
\* Lines 340-343
BestFrom(M, best, ii) ==
  IF ~(ii < Len(M)) THEN best
  ELSE BestFrom(M,
                IF M[ii + 1].Simple_Score > M[best + 1].Simple_Score
                  THEN ii ELSE best,
                ii + 1)

RECURSIVE Trace(_, _)
\* The loop of lines 347-355 from ii on; t holds the array, total, hi and lo
Trace(t, ii) ==
  IF ~(ii >= 0) THEN t
  ELSE LET m == t.arr[ii + 1]
       IN  Trace([arr |-> [t.arr EXCEPT ![ii + 1].Good = TRUE],
                  total |-> t.total + m.Len,
                  hi |-> IF m.Start1 + m.Len > t.hi THEN m.Start1 + m.Len ELSE t.hi,
                  lo |-> IF m.Start1 < t.lo THEN m.Start1 ELSE t.lo],
                 m.Simple_From)

\* The three line formats of lines 365, 371-374 and 378-386.  A column holds
\* the number printed, or the word printed in its place.
LabelLine(text) == [kind |-> "label", text |-> text]

FirstLine(m) ==
  [kind |-> "first", Start1 |-> m.Start1, Start2 |-> m.Start2, Len |-> m.Len,
   adj |-> "none", gap1 |-> "-", gap2 |-> "-"]

NextLine(m, p) ==
  LET adj == m.Simple_Adj
  IN  [kind |-> "next", Start1 |-> m.Start1 + adj, Start2 |-> m.Start2 + adj,
       Len |-> m.Len - adj,
       adj |-> IF adj = 0 THEN "none" ELSE -adj,
       gap1 |-> m.Start1 + adj - p.Start1 - p.Len,
       gap2 |-> m.Start2 + adj - p.Start2 - p.Len]

RECURSIVE PrintChain(_, _, _, _)
\* The loop of lines 367-389 from ii on
PrintChain(M, ii, prv, lines) ==
  IF ~(ii < Len(M)) THEN lines
  ELSE IF M[ii + 1].Good
    THEN PrintChain(M, ii + 1, ii,
                    Append(lines, IF prv = -1 THEN FirstLine(M[ii + 1])
                                  ELSE NextLine(M[ii + 1], M[prv + 1])))
    ELSE PrintChain(M, ii + 1, prv, lines)

\* A repack that keeps every match
Repack_KeepsAll(M) == M

\* A repack whose loop stops one match early
Repack_OffByOne(M) ==
  SelectSeq(SubSeq(M, 1, Len(M) - 1), LAMBDA m : ~m.Good)

\* Lines 393-402: pack the matches that are not Good to the front
Repack(M) == SelectSeq(M, LAMBDA m : ~m.Good)

\* The score of lines 356-361
ChainScore(c, t) == IF c.Use_Extents THEN t.hi - t.lo ELSE t.total

\* A threshold test that is strict
Reaches_Strict(c, score) == score > c.Min_Output_Score

\* The test of line 362
Reaches(c, score) == score >= c.Min_Output_Score

\* A label that is not replaced once it is printed
NextLabel_Kept(emit, lab) == lab

\* Line 390: the label the next chain of the cluster is printed under
NextLabel(emit, lab) == IF emit THEN "#" ELSE lab

\* One iteration of the do-while on M with label lab: what it leaves
Extract(c, M, lab) ==
  LET S == ScoreAll(M, 0)
      best == BestFrom(S, 0, 1)
      t == Trace([arr |-> S, total |-> 0, hi |-> LONG_MIN, lo |-> LONG_MAX],
                 best)
      score == ChainScore(c, t)
      emit == Reaches(c, score)
  IN  [arr |-> Repack(t.arr),
       lines |-> IF emit THEN PrintChain(t.arr, 0, -1, <<LabelLine(lab)>>)
                 ELSE <<>>,
       label |-> NextLabel(emit, lab),
       printed |-> IF emit THEN 1 ELSE 0,
       round |-> [ws |-> t.arr, best |-> best, score |-> score,
                  emitted |-> emit]]

----------------------------------------------------------------------------
(* The queries and option settings the model runs *)

DefaultOptions ==
  [Fixed_Separation |-> DEFAULT_FIXED_SEPARATION,
   Max_Separation |-> DEFAULT_MAX_SEPARATION,
   Min_Output_Score |-> DEFAULT_MIN_OUTPUT_SCORE,
   Separation_Factor |-> DEFAULT_SEPARATION_FACTOR,
   Use_Extents |-> FALSE]

\* Settings of -d, -s, -l, -f and -e on the scale of the generated queries
SmallOptions ==
  {[Fixed_Separation |-> 0, Max_Separation |-> 1, Min_Output_Score |-> 2,
    Separation_Factor |-> [num |-> 1, den |-> 1], Use_Extents |-> FALSE],
   [Fixed_Separation |-> 1, Max_Separation |-> 0, Min_Output_Score |-> 3,
    Separation_Factor |-> [num |-> 1, den |-> 2], Use_Extents |-> TRUE],
   [Fixed_Separation |-> 1, Max_Separation |-> 1, Min_Output_Score |-> 0,
    Separation_Factor |-> [num |-> 1, den |-> 2], Use_Extents |-> FALSE]}

\* Every match (Start1, Start2, Len) with Len > 0 that ends by MaxEnd
Anchors ==
  {Match_t(s1, s2, l) : <<s1, s2, l>> \in
     {t \in (0..(MaxEnd - 1)) \X (0..(MaxEnd - 1)) \X (1..MaxEnd) :
        t[1] + t[3] <= MaxEnd /\ t[2] + t[3] <= MaxEnd}}

\* The arrays of n matches in By_Start2 order.  qsort (line 431) erases the
\* order main read the matches in, so one arrangement stands for them all.
Queries(n) ==
  {q \in [1..n -> Anchors] :
     \A k \in 1..(n - 1) : By_Start2(q[k], q[k + 1]) <= 0}

\* Queries on the scale of real input, run with the default options and with
\* -l 20: the two scenarios of the specification, two matches that overlap on
\* different diagonals (further on the reference axis, and further on the query
\* axis), a match that a merge comes to cover, and a short match that lies
\* within the overlap of two long ones.
Scenarios ==
  {<<Match_t(0, 0, 10), Match_t(20, 20, 10)>>,
   <<Match_t(0, 0, 10), Match_t(5, 5, 10), Match_t(20, 20, 10)>>,
   <<Match_t(0, 0, 30), Match_t(27, 28, 30)>>,
   <<Match_t(0, 0, 30), Match_t(28, 27, 30)>>,
   <<Match_t(0, 0, 30), Match_t(0, 28, 10), Match_t(29, 29, 5)>>,
   <<Match_t(0, 0, 30), Match_t(27, 28, 3), Match_t(28, 30, 30)>>}

ScenarioOptions ==
  {DefaultOptions, [DefaultOptions EXCEPT !.Min_Output_Score = 20]}

Label == ">query"

----------------------------------------------------------------------------
(* The state machine: main has read one query and calls Process_Matches *)

\* hist and filtered are history variables: the code has no such state
Init ==
  /\ pc = "Process_Matches"
  /\ \/ cfg \in SmallOptions /\ \E n \in 0..MaxN : A \in Queries(n)
     \/ cfg \in ScenarioOptions /\ A \in Scenarios
  /\ label0 = Label
  /\ label = Label
  /\ UF = <<>>
  /\ i = 0
  /\ cluster_size = 0
  /\ print_ct = 0
  /\ W = <<>>
  /\ clabel = Label
  /\ ct = 0
  /\ out = <<>>
  /\ filtered = <<>>
  /\ hist = <<>>

\* Lines 421-425: a query without matches
EmptyQuery ==
  /\ pc = "Process_Matches"
  /\ Len(A) <= 0
  /\ out' = Append(out, LabelLine(label))
  /\ pc' = "done"
  /\ UNCHANGED <<cfg, label0, label, A, UF, i, cluster_size, print_ct, W,
                 clabel, ct, filtered, hist>>

\* Lines 429-433: reset the union-find, sort by Start2, filter
Filter ==
  /\ pc = "Process_Matches"
  /\ ~(Len(A) <= 0)
  /\ UF' = reset(Len(A))
  /\ \E S \in qsort(A, "By_Start2") : A' = Filter_Matches(S)
  /\ filtered' = A'
  /\ pc' = "filtered"
  /\ UNCHANGED <<cfg, label0, label, i, cluster_size, print_ct, W, clabel, ct,
                 out, hist>>

\* Lines 435-467: the union-find pass, the cluster ids, the sort by cluster,
\* and the call of Process_Cluster on the first cluster
Cluster ==
  /\ pc = "filtered"
  /\ LET ids == SetClusterIds(A, UnionLoop(cfg, A, UF, 1), 1)
     IN  /\ UF' = ids.uf
         /\ \E S \in qsort(ids.A, "By_Cluster") :
              /\ A' = S
              /\ cluster_size' = ClusterEnd(S, 1, 2) - 1
              /\ W' = SubSeq(S, 1, ClusterEnd(S, 1, 2) - 1)
  /\ i' = 1
  /\ clabel' = label
  /\ ct' = 0
  /\ pc' = "Process_Cluster"
  /\ UNCHANGED <<cfg, label0, label, print_ct, out, filtered, hist>>

\* Lines 312-403: one iteration of Process_Cluster's do-while
Round ==
  /\ pc = "Process_Cluster"
  /\ LET r == Extract(cfg, W, clabel)
     IN  /\ W' = r.arr
         /\ out' = out \o r.lines
         /\ clabel' = r.label
         /\ ct' = ct + r.printed
         /\ hist' = Append(hist, r.round)
         /\ pc' = IF Len(r.arr) > 0 THEN "Process_Cluster" ELSE "return"
  /\ UNCHANGED <<cfg, label0, label, A, UF, i, cluster_size, print_ct, filtered>>

\* Lines 405 and 467-503: Process_Cluster returns; Process_Matches goes on to
\* the next cluster, or ends
Return ==
  /\ pc = "return"
  /\ print_ct' = print_ct + ct
  /\ label' = IF print_ct' > 0 THEN "#" ELSE label
  /\ i' = i + cluster_size
  /\ IF i' <= Len(A)
       THEN /\ cluster_size' = ClusterEnd(A, i', i' + 1) - i'
            /\ W' = SubSeq(A, i', ClusterEnd(A, i', i' + 1) - 1)
            /\ clabel' = label'
            /\ ct' = 0
            /\ out' = out
            /\ pc' = "Process_Cluster"
       ELSE /\ out' = IF print_ct' = 0 THEN Append(out, LabelLine(label')) ELSE out
            /\ pc' = "done"
            /\ UNCHANGED <<cluster_size, W, clabel, ct>>
  /\ UNCHANGED <<cfg, label0, A, UF, filtered, hist>>

Next == EmptyQuery \/ Filter \/ Cluster \/ Round \/ Return

Spec == Init /\ [][Next]_vars

\* Filter_Matches called once more on the array it left (Tentative flags and
\* all), as a test of the filter would
Refilter ==
  /\ pc = "filtered"
  /\ A' = Filter_Matches(A)
  /\ pc' = "refiltered"
  /\ UNCHANGED <<cfg, label0, label, UF, i, cluster_size, print_ct, W, clabel,
                 ct, out, filtered, hist>>

NextRefilter == Filter \/ Refilter

SpecRefilter == Init /\ [][NextRefilter]_vars

----------------------------------------------------------------------------
(* Properties *)

Indices(M) == 1..Len(M)

\* C4 (Filter idempotence): a second run of Filter_Matches on the output of a
\* first run drops no match, changes no Len and leaves N as it was.
C4_FilterIdempotent ==
  pc = "refiltered" => Triples(A) = Triples(filtered)

\* Where the same-diagonal matches of M keep their [Start2, Start2 + Len) and
\* their [Start1, Start1 + Len) ranges apart
DiagonalsApart(M) ==
  \A x, y \in Indices(M) :
    (x < y /\ Diag(M[x]) = Diag(M[y])) =>
      /\ \/ M[x].Start2 + M[x].Len <= M[y].Start2
         \/ M[y].Start2 + M[y].Len <= M[x].Start2
      /\ \/ M[x].Start1 + M[x].Len <= M[y].Start1
         \/ M[y].Start1 + M[y].Len <= M[x].Start1

\* C5 (Filter diagonal invariant): after Filter_Matches, any two surviving
\* matches on one diagonal have query ranges, and so reference ranges, that do
\* not overlap.
C5_DiagonalInvariant ==
  pc = "filtered" => DiagonalsApart(A)

\* C5's case: the filter merged the first two matches of the second scenario
\* and kept the third, which lies on the same diagonal
C5_Witness ==
  /\ pc = "filtered"
  /\ Triples(A) = <<(<<0, 0, 15>>), (<<20, 20, 10>>)>>

\* The proximity relation as the specification states it, for a later than e in
\* Start2 order: the tolerance Separation_Factor * sep is compared as a
\* fraction, without the conversion to int.
Proximate(c, e, a) ==
  LET sep == a.Start2 - (e.Start2 + e.Len)
      drift == Abs(Diag(a) - Diag(e))
  IN  /\ sep <= c.Max_Separation
      /\ \/ drift <= c.Fixed_Separation
         \/ drift * c.Separation_Factor.den <= c.Separation_Factor.num * sep

Linked(c, M, x, y) ==
  \/ By_Start2(M[x], M[y]) < 0 /\ Proximate(c, M[x], M[y])
  \/ By_Start2(M[y], M[x]) < 0 /\ Proximate(c, M[y], M[x])

RECURSIVE Reachable(_, _, _)
\* The matches that chains of linked pairs connect to those of S
Reachable(c, M, S) ==
  LET T == S \cup {y \in Indices(M) : \E x \in S : Linked(c, M, x, y)}
  IN  IF T = S THEN S ELSE Reachable(c, M, T)

Clustered == pc \in {"Process_Cluster", "return", "done"} /\ Len(A) > 0

\* C1 (Partition property): once the cluster ids are set, every filtered match
\* carries the id of one set of the union-find, and two matches carry the same
\* id exactly when a chain of pairwise-proximate matches connects them.
C1_Partition ==
  Clustered =>
    /\ \A x \in Indices(A) : A[x].cluster_id \in 1..Len(UF)
    /\ \A x, y \in Indices(A) :
         (A[x].cluster_id = A[y].cluster_id) <=> (y \in Reachable(cfg, A, {x}))

\* C1's case: two matches that are not proximate share a cluster through a
\* third, under a maximum separation that some pair of the query exceeds
C1_Witness ==
  /\ Clustered
  /\ \E x, y \in Indices(A) :
       /\ x # y
       /\ A[x].cluster_id = A[y].cluster_id
       /\ ~Linked(cfg, A, x, y)
       /\ A[y].Start2 - (A[x].Start2 + A[x].Len) > cfg.Max_Separation

\* The lines of a chain's matches among the output
IsMatchLine(l) == l.kind \in {"first", "next"}

\* C2 (Chain non-overlap): every printed record after the first of its chain
\* starts, on both axes, at or after the end of the record printed before it:
\* its adjusted start is at least the previous adjusted start plus the previous
\* adjusted length, and neither printed gap is negative.
C2_ChainNonOverlap ==
  \A k \in Indices(out) :
    out[k].kind = "next" =>
      /\ k > 1 /\ IsMatchLine(out[k - 1])
      /\ out[k].Start1 >= out[k - 1].Start1 + out[k - 1].Len
      /\ out[k].Start2 >= out[k - 1].Start2 + out[k - 1].Len
      /\ out[k].gap1 >= 0
      /\ out[k].gap2 >= 0

\* C2's case: a printed record that was trimmed where it overlapped the one
\* before it on the reference axis
C2_Witness ==
  \E k \in Indices(out) :
    /\ out[k].kind = "next"
    /\ out[k].gap1 = 0
    /\ out[k].gap2 > 0
    /\ \E m \in Indices(filtered) :
         /\ filtered[m].Start1 < out[k].Start1
         /\ filtered[m].Start1 + filtered[m].Len = out[k].Start1 + out[k].Len
         /\ Diag(filtered[m]) = out[k].Start2 - out[k].Start1

\* The rounds whose chain holds the match of triple t
RoundsOf(t) ==
  {r \in Indices(hist) :
     \E k \in Indices(hist[r].ws) :
       hist[r].ws[k].Good /\ Triple(hist[r].ws[k]) = t}

\* The number of matches on the chain of round r
ChainLen(r) == Cardinality({k \in Indices(hist[r].ws) : hist[r].ws[k].Good})

RECURSIVE EmittedMatches(_)
\* The number of matches on the emitted chains of rounds 1 .. r
EmittedMatches(r) ==
  IF r = 0 THEN 0
  ELSE EmittedMatches(r - 1) + (IF hist[r].emitted THEN ChainLen(r) ELSE 0)

\* C3 as stated (Exhaustion accounting): when the clusters are exhausted, every
\* filtered match is on exactly one emitted chain, whatever the minimum score.
C3_AllEmitted ==
  pc = "done" =>
    \A m \in Indices(filtered) :
      Cardinality({r \in RoundsOf(Triple(filtered[m])) : hist[r].emitted}) = 1

\* C3 as amended: when the clusters are exhausted, every filtered match is on
\* the chain of exactly one extraction round; that chain is emitted exactly
\* when its score reaches Min_Output_Score, so no match is on two emitted
\* chains, and the printed records are those of the emitted chains.
C3_Exhaustion ==
  pc = "done" =>
    /\ \A m \in Indices(filtered) :
         Cardinality(RoundsOf(Triple(filtered[m]))) = 1
    /\ \A r \in Indices(hist) :
         hist[r].emitted <=> (hist[r].score >= cfg.Min_Output_Score)
    /\ Cardinality({k \in Indices(out) : IsMatchLine(out[k])})
         = EmittedMatches(Len(hist))

\* C3's case: a cluster gave one chain that was printed and one that was not
C3_Witness ==
  /\ pc = "done"
  /\ \E r, q \in Indices(hist) :
       /\ hist[r].emitted /\ ~hist[q].emitted
       /\ Len(hist[r].ws) > ChainLen(r)

\* The chains printed, counted from the extraction rounds
EmittedRounds == {r \in Indices(hist) : hist[r].emitted}

\* C6 (Label emission order): the label is the first line of the query's
\* output and is printed once; every later chain is headed by "#"; each chain's
\* first record follows its heading line; and a query without matches, or
\* without a chain that reaches the minimum score, prints the label alone.
C6_LabelOrder ==
  pc = "done" =>
    /\ Len(out) >= 1
    /\ out[1] = LabelLine(label0)
    /\ \A k \in Indices(out) :
         /\ (k > 1 /\ out[k].kind = "label") => out[k].text = "#"
         /\ out[k].kind = "first" <=> (k > 1 /\ out[k - 1].kind = "label")
    /\ Cardinality({k \in Indices(out) : out[k].kind = "label"})
         = Max(1, Cardinality(EmittedRounds))
    /\ (Len(filtered) = 0 \/ EmittedRounds = {}) => out = <<LabelLine(label0)>>

\* C6's case: a query whose first cluster printed two chains and whose second
\* cluster printed another
C6_Witness ==
  /\ pc = "done"
  /\ Cardinality(EmittedRounds) >= 2
  /\ \E x, y \in Indices(A) : A[x].cluster_id # A[y].cluster_id
  /\ \E r \in EmittedRounds : Len(hist[r].ws) > ChainLen(r)

\* C7 (Termination of chain extraction): every iteration of Process_Cluster's
\* do-while consumes at least one match, so it leaves a working set strictly
\* smaller than it found, and the loop is left exactly when none remains.
C7_Terminates ==
  [][pc = "Process_Cluster" =>
       /\ Len(W) >= 1
       /\ Len(W') < Len(W)
       /\ pc' = (IF Len(W') = 0 THEN "return" ELSE "Process_Cluster")]_vars

\* C7's case: a cluster that took a second iteration, with matches still left
C7_Witness ==
  /\ pc = "Process_Cluster"
  /\ Len(hist) >= 2
  /\ Len(W) > 0
  /\ Len(hist[Len(hist)].ws) < Len(hist[Len(hist) - 1].ws)

\* The filtered query of the first scenario
IsScenario ==
  Triples(filtered) = <<(<<0, 0, 10>>), (<<20, 20, 10>>)>>

\* What the first scenario prints when its chain is emitted
ScenarioOutput ==
  <<LabelLine(label0),
    [kind |-> "first", Start1 |-> 0, Start2 |-> 0, Len |-> 10,
     adj |-> "none", gap1 |-> "-", gap2 |-> "-"],
    [kind |-> "next", Start1 |-> 20, Start2 |-> 20, Len |-> 10,
     adj |-> "none", gap1 |-> 10, gap2 |-> 10]>>

\* C8 as stated (Scenario): with the default options the matches (0,0,10) and
\* (20,20,10) give one cluster and one chain of score 20, which is emitted, the
\* first record as it is and the second with adjustment "none".
C8_ScenarioEmitted ==
  (pc = "done" /\ IsScenario /\ cfg = DefaultOptions) =>
    /\ A[1].cluster_id = A[2].cluster_id
    /\ Len(hist) = 1
    /\ hist[1].score = 20
    /\ out = ScenarioOutput

\* C8 as amended: the two matches give one cluster and one chain of score 20;
\* under the default minimum score of 200 the chain is not emitted and the
\* output is the label alone; with the minimum score at 20 or less it is
\* emitted, the first record as it is and the second with adjustment "none".
C8_Scenario ==
  (pc = "done" /\ IsScenario) =>
    /\ A[1].cluster_id = A[2].cluster_id
    /\ Len(hist) = 1
    /\ ChainLen(1) = 2
    /\ hist[1].score = 20
    /\ cfg.Min_Output_Score = DEFAULT_MIN_OUTPUT_SCORE
         => out = <<LabelLine(label0)>>
    /\ cfg.Min_Output_Score <= 20 => out = ScenarioOutput

\* C8's case: the scenario has run to its end under the default options and
\* printed the label alone
C8_Witness ==
  /\ pc = "done"
  /\ IsScenario
  /\ cfg = DefaultOptions
  /\ Len(hist) = 1
  /\ out = <<LabelLine(label0)>>

\* The penalty of the chaining model as the claim states it
StatedPenalty(e, a) ==
  LET o1 == e.Start1 + e.Len - a.Start1
      o2 == e.Start2 + e.Len - a.Start2
      o == IF o1 >= o2 THEN o1 ELSE o2
  IN  (IF o > 0 THEN o ELSE 0) + Abs(Diag(a) - Diag(e))

Top(S) == CHOOSE x \in S : \A y \in S : y <= x

RECURSIVE SubsequenceScore(_, _)
\* The score of the subsequence of M at the positions S: the lengths, less the
\* penalty of every two neighbours
SubsequenceScore(M, S) ==
  IF S = {} THEN 0
  ELSE LET k == Top(S)
           R == S \ {k}
       IN  SubsequenceScore(M, R) + M[k].Len
             - (IF R = {} THEN 0 ELSE StatedPenalty(M[Top(R)], M[k]))

ChainPositions(M) == {k \in Indices(M) : M[k].Good}

\* C9 (Per-cluster chain optimality): in every extraction round, the chain
\* walked back from the selected terminus ends at that terminus and scores the
\* terminus' Simple_Score, which is the greatest score of any non-empty
\* subsequence of the working set.
C9_ChainOptimal ==
  hist # <<>> =>
    LET r == hist[Len(hist)]
        M == r.ws
        chain == ChainPositions(M)
    IN  /\ chain # {}
        /\ Top(chain) = r.best + 1
        /\ SubsequenceScore(M, chain) = M[r.best + 1].Simple_Score
        /\ \A S \in (SUBSET Indices(M)) \ {{}} :
             SubsequenceScore(M, S) <= M[r.best + 1].Simple_Score
        /\ \A k \in Indices(M) :
             M[k].Simple_Score <= M[r.best + 1].Simple_Score

\* C9's case: a round that chained two of three matches at a penalty and left
\* the third out
C9_Witness ==
  /\ hist # <<>>
  /\ LET M == hist[Len(hist)].ws
     IN  /\ Len(M) = 3
         /\ Cardinality(ChainPositions(M)) = 2
         /\ \E k \in ChainPositions(M) :
              M[k].Simple_From >= 0 /\ M[k].Simple_Score < M[k].Len
                + M[M[k].Simple_From + 1].Simple_Score

\* C10 (Emitted lengths stay positive): every match on a selected chain, the
\* first apart, has Simple_Adj < Len, and every printed record has a length
\* above 0.
C10_PositiveLength ==
  /\ hist # <<>> =>
       LET M == hist[Len(hist)].ws
       IN  \A k \in ChainPositions(M) :
             /\ M[k].Len > 0
             /\ M[k].Simple_From >= 0 =>
                  (M[k].Simple_Adj >= 0 /\ M[k].Simple_Adj < M[k].Len)
  /\ \A k \in Indices(out) : IsMatchLine(out[k]) => out[k].Len > 0

\* C10's case: a chain whose second match is trimmed, in a round where another
\* match overlaps its best predecessor by its whole length and stays out
C10_Witness ==
  /\ hist # <<>>
  /\ LET M == hist[Len(hist)].ws
     IN  /\ \E k \in ChainPositions(M) :
              M[k].Simple_From >= 0 /\ M[k].Simple_Adj > 0
         /\ \E k \in Indices(M) \ ChainPositions(M) :
              M[k].Simple_From >= 0 /\ M[k].Simple_Adj >= M[k].Len

====
